---- MODULE Spec2Model ----
(***************************************************************************)
(* A model of the Jack front-end: JackTokenizer (parser/jack_tokenizer.py) *)
(* and CompilationEngine (parser/compilation_engine.py).                   *)
(*                                                                         *)
(* A source file is a sequence of physical lines; a line is a sequence of  *)
(* items.  An item is the text of one lexeme, or one of the comment        *)
(* markers of a block comment's start, a block comment's end and a line   *)
(* comment.  The regular expressions of parser.utils.patterns and the      *)
(* constants of parser.utils.token_types are not part of the sources at    *)
(* hand; they are modelled from the specification, sections 3 and 4.1,     *)
(* and act on items instead of characters.                                 *)
(***************************************************************************)
EXTENDS Integers, Sequences, FiniteSets, TLC

VARIABLES
    jt,        \* the JackTokenizer object (self._infile of the engine)
    pc,        \* position of the running routine
    exc,       \* the exception that left the routine ("none" when none)
    body,      \* CompilationEngine._body, the pending (label, value) pairs
    indent,    \* CompilationEngine._indent
    outfile,   \* the lines written to CompilationEngine._outfile
    ret        \* the last call a caller made on the tokenizer, and its value

vars == <<jt, pc, exc, body, indent, outfile, ret>>

\* F applied to the value of v, which is computed once.
Bind(v, F(_)) == CHOOSE r \in {F(x) : x \in {v}} : TRUE

(***************************************************************************)
(* Bounds of the model.                                                    *)
(***************************************************************************)
MaxLines == 3    \* physical lines of a file handed to the tokenizer alone
MaxDecs == 1     \* class variable declarations in a generated class
MaxNames == 2    \* variable names in one generated declaration
MaxItems == 3    \* items in one line of a file with block comments

(***************************************************************************)
(* parser.utils.token_types, modelled from the specification.               *)
(***************************************************************************)
KEYWORD == "KEYWORD"
SYMBOL == "SYMBOL"
IDENTIFIER == "IDENTIFIER"
INT_CONST == "INT_CONST"
STRING_CONST == "STRING_CONST"
None == "None"
INT == "int"
CHAR == "char"
BOOLEAN_ == "boolean"
VOID == "void"

(***************************************************************************)
(* parser.utils.patterns, modelled from the specification: the texts each  *)
(* pattern matches in full.  Integer, string and identifier texts are the  *)
(* ones the files of the model are written with.                           *)
(***************************************************************************)
KeywordTexts ==
    {"class", "constructor", "function", "method", "field", "static", "var",
     "int", "char", "boolean", "void", "true", "false", "null", "this",
     "let", "do", "if", "else", "while", "return"}

SymbolTexts ==
    {"{", "}", "(", ")", "[", "]", ".", ",", ";", "+", "-", "*", "/", "&",
     "|", "<", ">", "=", "~"}

IntTexts == {"7", "40000"}

StringTexts == {"\"hi\""}

IdentifierTexts == {"Main", "x", "y", "f"}

\* The tables the engine reads from the tokenizer object: keyword text to
\* keyword constant and back.  key_word() returns the raw text, so the
\* constant of a keyword is its text.
KEYWORDS_TABLE(key) == key

NAMES_TABLE(kw) == kw

\* xml.sax.saxutils.escape
escape(text) ==
    CASE text = "&" -> "&amp;"
      [] text = "<" -> "&lt;"
      [] text = ">" -> "&gt;"
      [] OTHER -> text

(***************************************************************************)
(* JackTokenizer.next_clean_line                                           *)
(***************************************************************************)
NL == "\n"

\* patterns.BLOCK_COMMENT_START.search(line)
BLOCK_COMMENT_START(line) == \E i \in 1..Len(line) : line[i] = "/*"

\* patterns.BLOCK_COMMENT.sub('', text): every "/*" up to the first "*/"
\* that follows it is removed, left to right.
RECURSIVE BLOCK_COMMENT_sub(_)
BLOCK_COMMENT_sub(s) ==
    IF s = <<>> THEN <<>>
    ELSE IF Head(s) = "/*" /\ \E j \in 2..Len(s) : s[j] = "*/"
         THEN LET j == CHOOSE k \in 2..Len(s) :
                          /\ s[k] = "*/"
                          /\ \A m \in 2..(k - 1) : s[m] # "*/"
              IN BLOCK_COMMENT_sub(SubSeq(s, j + 1, Len(s)))
         ELSE <<Head(s)>> \o BLOCK_COMMENT_sub(Tail(s))

\* patterns.LINE_COMMENT.sub('', text): "//" up to the end of its physical
\* line is removed.  The flag tells whether the scan is inside a comment.
RECURSIVE LINE_COMMENT_scan(_, _)
LINE_COMMENT_scan(s, inside) ==
    IF s = <<>> THEN <<>>
    ELSE IF Head(s) = NL THEN <<NL>> \o LINE_COMMENT_scan(Tail(s), FALSE)
    ELSE IF inside \/ Head(s) = "//" THEN LINE_COMMENT_scan(Tail(s), TRUE)
    ELSE <<Head(s)>> \o LINE_COMMENT_scan(Tail(s), FALSE)

LINE_COMMENT_sub(s) == LINE_COMMENT_scan(s, FALSE)

\* ' '.join(line.split()): white space, the line ends included, is dropped.
RECURSIVE StripWhitespace(_)
StripWhitespace(s) ==
    IF s = <<>> THEN <<>>
    ELSE IF Head(s) = NL THEN StripWhitespace(Tail(s))
    ELSE <<Head(s)>> \o StripWhitespace(Tail(s))

\* The loop of next_clean_line over the lines left in the file: the clean
\* lines it yields.  block_comment is the accumulated buffer.
RECURSIVE CleanLoop(_, _, _)
CleanLoop(lines, inside_block_comment, block_comment) ==
    IF lines = <<>> THEN <<>>
    ELSE
      Bind(Head(lines) \o <<NL>>, LAMBDA raw :
      Bind(inside_block_comment \/ BLOCK_COMMENT_START(raw), LAMBDA inside :
      Bind(block_comment \o raw, LAMBDA buffer :
      Bind(BLOCK_COMMENT_sub(buffer), LAMBDA comment_removed :
         IF inside /\ comment_removed = buffer
         THEN CleanLoop(Tail(lines), TRUE, buffer)
         ELSE Bind(LINE_COMMENT_sub(IF inside THEN comment_removed ELSE raw),
                   LAMBDA uncommented :
              Bind(StripWhitespace(uncommented), LAMBDA line :
                  (IF line # <<>> THEN <<line>> ELSE <<>>)
                      \o CleanLoop(Tail(lines), FALSE, <<>>)))))))

next_clean_line(fd) ==
    CleanLoop(SubSeq(fd.lines, fd.pos + 1, Len(fd.lines)), FALSE, <<>>)

\* patterns.ALL_TERMINATORS.finditer(line): the texts matched in one clean
\* line.  A comment marker left in the line is split into its symbols.
RECURSIVE ALL_TERMINATORS(_)
ALL_TERMINATORS(line) ==
    IF line = <<>> THEN <<>>
    ELSE (CASE Head(line) = "/*" -> <<"/", "*">>
            [] Head(line) = "*/" -> <<"*", "/">>
            [] OTHER -> <<Head(line)>>) \o ALL_TERMINATORS(Tail(line))

RECURSIVE Flatten(_)
Flatten(ss) == IF ss = <<>> THEN <<>> ELSE Head(ss) \o Flatten(Tail(ss))

\* The texts of all tokens in a file, in source order.
AllTexts(lines) ==
    LET clean == CleanLoop(lines, FALSE, <<>>)
    IN Flatten([i \in 1..Len(clean) |-> ALL_TERMINATORS(clean[i])])

(***************************************************************************)
(* JackTokenizer.__init__                                                  *)
(* fd is the open file; n_matched counts the match objects created so far, *)
(* so that each match carries the ordinal of its occurrence in the source; *)
(* next_pos is the occurrence held in _next_token and log lists the        *)
(* occurrences that have been made the current token.                      *)
(***************************************************************************)
JackTokenizer(lines) ==
    [fd |-> [lines |-> lines, pos |-> 0, closed |-> FALSE],
     token |-> "",
     next_token |-> "",
     token_queue |-> <<>>,
     token_cache |-> [t \in {} |-> [key |-> "", val |-> ""]],
     more_tokens |-> TRUE,
     n_matched |-> 0,
     next_pos |-> 0,
     log |-> <<>>]

\* What a call on the tokenizer gives its caller: the method called, the
\* exception it raised ("none" when it returned) and the value it returned,
\* a string in val or, from int_val, an integer in int.
Call(op, e, val) == [op |-> op, exc |-> e, val |-> val, int |-> 0]

IntCall(op, e, n) == [op |-> op, exc |-> e, val |-> "", int |-> n]

NoCall == Call("", "none", "")

\* JackTokenizer.has_more_tokens
has_more_tokens(t) == t.more_tokens

(***************************************************************************)
(* JackTokenizer.advance                                                   *)
(***************************************************************************)
\* A variant of advance_raises for a file that can be read after close().
advance_never_raises(t) == FALSE

\* Iterating a closed file raises ValueError before anything is changed.
advance_raises(t) == t.fd.closed

\* The for loop of advance: the matches of every clean line left in the
\* file are chained to the queue.
ReadLines(t) ==
    Bind(next_clean_line(t.fd), LAMBDA clean :
    Bind([i \in 1..Len(clean) |-> ALL_TERMINATORS(clean[i])], LAMBDA matches :
    Bind(Flatten(matches), LAMBDA texts :
        [t EXCEPT !.fd.pos = Len(t.fd.lines),
                  !.n_matched = @ + Len(texts),
                  !.token_queue = @ \o [i \in 1..Len(texts) |->
                                           [text |-> texts[i], pos |-> t.n_matched + i]]])))

\* A variant of TakeCurrent that reads the head of the queue and leaves it
\* there.
TakeCurrentAgain(t) ==
    IF t.next_token # ""
    THEN [jt |-> [t EXCEPT !.token = t.next_token, !.log = Append(@, t.next_pos)],
          stopped |-> FALSE]
    ELSE IF t.token_queue = <<>> THEN [jt |-> t, stopped |-> TRUE]
    ELSE [jt |-> [t EXCEPT !.token = Head(t.token_queue).text,
                           !.log = Append(@, Head(t.token_queue).pos)],
          stopped |-> FALSE]

\* self.token = self._next_token or next(self.token_queue).group(0)
\* stopped tells that next() raised StopIteration.
TakeCurrent(t) ==
    IF t.next_token # ""
    THEN [jt |-> [t EXCEPT !.token = t.next_token, !.log = Append(@, t.next_pos)],
          stopped |-> FALSE]
    ELSE IF t.token_queue = <<>> THEN [jt |-> t, stopped |-> TRUE]
    ELSE [jt |-> [t EXCEPT !.token = Head(t.token_queue).text,
                           !.log = Append(@, Head(t.token_queue).pos),
                           !.token_queue = Tail(@)],
          stopped |-> FALSE]

\* self._next_token = next(self.token_queue).group(0), and the except
\* clause: self._next_token = ''
TakeLookahead(c) ==
    IF c.stopped \/ c.jt.token_queue = <<>>
    THEN [c.jt EXCEPT !.next_token = "", !.next_pos = 0]
    ELSE [c.jt EXCEPT !.next_token = Head(c.jt.token_queue).text,
                      !.next_pos = Head(c.jt.token_queue).pos,
                      !.token_queue = Tail(@)]

\* if not self._next_token: self.more_tokens = False; self.fd.close()
CloseAtEnd(t) ==
    IF t.next_token = ""
    THEN [t EXCEPT !.more_tokens = FALSE, !.fd.closed = TRUE]
    ELSE t

advance(t) ==
    Bind(ReadLines(t), LAMBDA a :
    Bind(TakeCurrent(a), LAMBDA c :
    Bind(TakeLookahead(c), CloseAtEnd)))

(***************************************************************************)
(* JackTokenizer.token_type and the accessors.  A call returns a value and *)
(* leaves the tokenizer with an updated token_cache: [ret, jt].            *)
(***************************************************************************)
CachePut(cache, text, key, val) ==
    [t \in DOMAIN cache \cup {text} |->
        IF t = text THEN [key |-> key, val |-> val] ELSE cache[t]]

\* A variant of CacheHit for a cache that keeps one value per token, whatever
\* the method that stored it.
CacheHitAnyKey(t, key) == t.token \in DOMAIN t.token_cache

CacheHit(t, key) ==
    /\ t.token \in DOMAIN t.token_cache
    /\ t.token_cache[t.token].key = key

\* The if/elif chain of token_type over the patterns.
Classify(text) ==
    IF text \in KeywordTexts THEN KEYWORD
    ELSE IF text \in SymbolTexts THEN SYMBOL
    ELSE IF text \in IntTexts THEN INT_CONST
    ELSE IF text \in StringTexts THEN STRING_CONST
    ELSE IF text \in IdentifierTexts THEN IDENTIFIER
    ELSE None

token_type(t) ==
    IF CacheHit(t, "token_type")
    THEN [ret |-> t.token_cache[t.token].val, jt |-> t]
    ELSE [ret |-> Classify(t.token),
          jt |-> [t EXCEPT !.token_cache =
                      CachePut(@, t.token, "token_type", Classify(t.token))]]

key_word(t) ==
    IF CacheHit(t, "key_word")
    THEN [ret |-> t.token_cache[t.token].val, jt |-> t]
    ELSE [ret |-> t.token,
          jt |-> [t EXCEPT !.token_cache =
                      CachePut(@, t.token, "key_word", t.token)]]

symbol(t) ==
    IF CacheHit(t, "symbol")
    THEN [ret |-> t.token_cache[t.token].val, jt |-> t]
    ELSE [ret |-> escape(t.token),
          jt |-> [t EXCEPT !.token_cache =
                      CachePut(@, t.token, "symbol", escape(t.token))]]

identifier(t) ==
    IF CacheHit(t, "identifier")
    THEN [ret |-> t.token_cache[t.token].val, jt |-> t]
    ELSE [ret |-> t.token,
          jt |-> [t EXCEPT !.token_cache =
                      CachePut(@, t.token, "identifier", t.token)]]

\* int(self.token): the value of a text of digits; any other text makes
\* int() raise ValueError.
IsDecimal(text) == text \in {"7", "40000"}

int(text) ==
    CASE text = "7" -> 7
      [] text = "40000" -> 40000
      [] OTHER -> 0

\* self.token[1:-1]: the text without its first and its last character.
Slice(text) ==
    CASE text = "\"hi\"" -> "hi"
      [] text = "class" -> "las"
      [] text = "40000" -> "000"
      [] text = "Main" -> "ai"
      [] OTHER -> ""

\* int_val: [ret, jt, exc]; int() raises before the cache is written.
int_val(t) ==
    IF CacheHit(t, "int_val")
    THEN [ret |-> t.token_cache[t.token].val, jt |-> t, exc |-> "none"]
    ELSE IF ~IsDecimal(t.token)
    THEN [ret |-> "", jt |-> t, exc |-> "ValueError"]
    ELSE [ret |-> int(t.token),
          jt |-> [t EXCEPT !.token_cache =
                      CachePut(@, t.token, "int_val", int(t.token))],
          exc |-> "none"]

string_val(t) ==
    IF CacheHit(t, "string_val")
    THEN [ret |-> t.token_cache[t.token].val, jt |-> t]
    ELSE [ret |-> Slice(t.token),
          jt |-> [t EXCEPT !.token_cache =
                      CachePut(@, t.token, "string_val", Slice(t.token))]]

(***************************************************************************)
(* The tokenizer driven on its own: any sequence of advance() calls.       *)
(***************************************************************************)
LineChoices ==
    {<<>>, <<"x">>, <<"x", ";">>, <<"7", "x">>, <<"class">>}

RECURSIVE FilesUpTo(_)
FilesUpTo(n) ==
    IF n = 0 THEN {<<>>}
    ELSE FilesUpTo(n - 1) \cup
         {Append(f, l) : f \in {g \in FilesUpTo(n - 1) : Len(g) = n - 1},
                         l \in LineChoices}

TokInit ==
    /\ jt \in {JackTokenizer(lines) : lines \in FilesUpTo(MaxLines)}
    /\ pc = "tokenizing"
    /\ exc = "none"
    /\ body = <<>>
    /\ indent = 0
    /\ outfile = <<>>
    /\ ret = NoCall

\* A call of advance(): it returns, or it raises and changes nothing.
TokAdvance ==
    /\ pc = "tokenizing"
    /\ IF advance_raises(jt)
       THEN /\ exc' = "ValueError"
            /\ jt' = jt
       ELSE /\ exc' = "none"
            /\ jt' = advance(jt)
    /\ UNCHANGED <<pc, body, indent, outfile, ret>>

TokNext == TokAdvance

TokSpec == TokInit /\ [][TokNext]_vars

(***************************************************************************)
(* The tokenizer on files with block comments: one or two physical lines   *)
(* of identifiers and comment markers, read by advance().                  *)
(***************************************************************************)
CommentItems == {"x", "/*", "*/"}

RECURSIVE LinesUpTo(_)
LinesUpTo(n) ==
    IF n = 0 THEN {<<>>}
    ELSE LinesUpTo(n - 1) \cup
         {Append(l, i) : l \in {k \in LinesUpTo(n - 1) : Len(k) = n - 1},
                         i \in CommentItems}

CommentFiles ==
    {<<a>> : a \in LinesUpTo(MaxItems)}
    \cup {<<a, b>> : a \in LinesUpTo(MaxItems), b \in LinesUpTo(MaxItems)}

CommentInit ==
    /\ jt \in {JackTokenizer(lines) : lines \in CommentFiles}
    /\ pc = "tokenizing"
    /\ exc = "none"
    /\ body = <<>>
    /\ indent = 0
    /\ outfile = <<>>
    /\ ret = NoCall

CommentSpec == CommentInit /\ [][TokNext]_vars

(***************************************************************************)
(* The tokenizer called freely: any sequence of calls of advance(),        *)
(* token_type() and the accessors, on files of one to three tokens.        *)
(***************************************************************************)
CallFiles ==
    {<<>>,
     <<<<"class", "x">>>>,
     <<<<"7", "<">>>>,
     <<<<"40000">>, <<"\"hi\"">>>>,
     <<<<"x", "x", ";">>>>}

CallInit ==
    /\ jt \in {JackTokenizer(lines) : lines \in CallFiles}
    /\ pc = "calling"
    /\ exc = "none"
    /\ body = <<>>
    /\ indent = 0
    /\ outfile = <<>>
    /\ ret = NoCall

\* What a call leaves: the tokenizer, and the call with its outcome.
Returned(op, r) ==
    /\ pc = "calling"
    /\ jt' = r.jt
    /\ ret' = Call(op, "none", r.ret)
    /\ exc' = "none"
    /\ UNCHANGED <<pc, body, indent, outfile>>

CallAdvance ==
    /\ pc = "calling"
    /\ IF advance_raises(jt)
       THEN /\ jt' = jt
            /\ ret' = Call("advance", "ValueError", "")
            /\ exc' = "ValueError"
       ELSE /\ jt' = advance(jt)
            /\ ret' = Call("advance", "none", "")
            /\ exc' = "none"
    /\ UNCHANGED <<pc, body, indent, outfile>>

CallTokenType == \E r \in {token_type(jt)} : Returned("token_type", r)

CallKeyWord == \E r \in {key_word(jt)} : Returned("key_word", r)

CallSymbol == \E r \in {symbol(jt)} : Returned("symbol", r)

CallIdentifier == \E r \in {identifier(jt)} : Returned("identifier", r)

CallIntVal ==
    /\ pc = "calling"
    /\ \E r \in {int_val(jt)} :
           /\ jt' = r.jt
           /\ ret' = IF r.exc = "none" THEN IntCall("int_val", "none", r.ret)
                                     ELSE Call("int_val", r.exc, "")
           /\ exc' = r.exc
    /\ UNCHANGED <<pc, body, indent, outfile>>

CallStringVal == \E r \in {string_val(jt)} : Returned("string_val", r)

CallNext ==
    \/ CallAdvance
    \/ CallTokenType
    \/ CallKeyWord
    \/ CallSymbol
    \/ CallIdentifier
    \/ CallIntVal
    \/ CallStringVal

CallSpec == CallInit /\ [][CallNext]_vars

(***************************************************************************)
(* CompilationEngine: exceptions, output lines and the helpers.            *)
(***************************************************************************)
\* class CompileError(Exception); class CompileKeyError(CompileError)
IsInstance(e, cls) ==
    \/ e = cls
    \/ e = "CompileKeyError" /\ cls = "CompileError"

\* Variants of the except clause: one that names the base class, one that
\* catches nothing.
CatchesCompileError(e) == IsInstance(e, "CompileError")

CatchesNothing(e) == FALSE

\* The clause "except CompileKeyError" of the two loops of compile_class.
Catches(e) == IsInstance(e, "CompileKeyError")

\* What a helper leaves behind: the exception it raised ("none" when it
\* returned), the tokenizer and the pending body.
Result(e, t, b) == [exc |-> e, jt |-> t, body |-> b]

\* One line of the output file: its indentation and its element.
Line(ind, kind, element, terminal) ==
    [indent |-> ind, kind |-> kind, element |-> element, terminal |-> terminal]

\* self._outfile.write(' ' * n) in front of the line that is written next.
Indented(n, line) == [line EXCEPT !.indent = n + @]

\* A variant of add_keywords that advances whatever step says.
add_keywords_stepping(t, b, keywords, step) ==
    IF advance_raises(t) THEN Result("ValueError", t, b)
    ELSE Bind(advance(t), LAMBDA t1 :
    Bind(token_type(t1), LAMBDA ty :
        IF ty.ret # KEYWORD THEN Result("CompileKeyError", ty.jt, b)
        ELSE Bind(key_word(ty.jt), LAMBDA kw :
            IF \E key \in keywords : kw.ret = KEYWORDS_TABLE(key)
            THEN Result("none", kw.jt,
                        Append(b, <<"keyword", NAMES_TABLE(kw.ret)>>))
            ELSE Result("CompileKeyError", kw.jt, b))))

add_keywords(t, b, keywords, step) ==
    IF step /\ advance_raises(t) THEN Result("ValueError", t, b)
    ELSE Bind(IF step THEN advance(t) ELSE t, LAMBDA t1 :
    Bind(token_type(t1), LAMBDA ty :
        IF ty.ret # KEYWORD THEN Result("CompileKeyError", ty.jt, b)
        ELSE Bind(key_word(ty.jt), LAMBDA kw :
            IF \E key \in keywords : kw.ret = KEYWORDS_TABLE(key)
            THEN Result("none", kw.jt,
                        Append(b, <<"keyword", NAMES_TABLE(kw.ret)>>))
            ELSE Result("CompileKeyError", kw.jt, b))))

\* A variant of add_symbols that leaves the pending body as it is.
add_symbols_unbuffered(t, b, symbols, step) ==
    IF step /\ advance_raises(t) THEN Result("ValueError", t, b)
    ELSE Bind(IF step THEN advance(t) ELSE t, LAMBDA t1 :
    Bind(token_type(t1), LAMBDA ty :
        IF ty.ret # SYMBOL THEN Result("CompileError", ty.jt, b)
        ELSE Bind(symbol(ty.jt), LAMBDA sy :
            IF sy.ret \in symbols THEN Result("none", sy.jt, b)
            ELSE Result("CompileError", sy.jt, b))))

add_symbols(t, b, symbols, step) ==
    IF step /\ advance_raises(t) THEN Result("ValueError", t, b)
    ELSE Bind(IF step THEN advance(t) ELSE t, LAMBDA t1 :
    Bind(token_type(t1), LAMBDA ty :
        IF ty.ret # SYMBOL THEN Result("CompileError", ty.jt, b)
        ELSE Bind(symbol(ty.jt), LAMBDA sy :
            IF sy.ret \in symbols
            THEN Result("none", sy.jt, Append(b, <<"symbol", sy.ret>>))
            ELSE Result("CompileError", sy.jt, b))))

add_identifier(t, b, step) ==
    IF step /\ advance_raises(t) THEN Result("ValueError", t, b)
    ELSE Bind(IF step THEN advance(t) ELSE t, LAMBDA t1 :
    Bind(token_type(t1), LAMBDA ty :
        IF ty.ret = IDENTIFIER
        THEN Bind(identifier(ty.jt), LAMBDA id :
                 Result("none", id.jt, Append(b, <<"identifier", id.ret>>)))
        ELSE Result("CompileError", ty.jt, b)))

\* The elif and the else of add_type: token_type() once more.
AddTypeElse(t, b) ==
    Bind(token_type(t), LAMBDA ty :
        IF ty.ret = IDENTIFIER
        THEN Bind(identifier(ty.jt), LAMBDA id :
                 Result("none", id.jt, Append(b, <<"identifier", id.ret>>)))
        ELSE Result("CompileError", ty.jt, b))

add_type(t, b, void) ==
    IF advance_raises(t) THEN Result("ValueError", t, b)
    ELSE Bind(advance(t), LAMBDA t1 :
    Bind(token_type(t1), LAMBDA ty :
        IF ty.ret # KEYWORD THEN AddTypeElse(ty.jt, b)
        ELSE Bind(key_word(ty.jt), LAMBDA kw :
            IF kw.ret \in {INT, CHAR, BOOLEAN_} \cup (IF void THEN {VOID} ELSE {})
            THEN Result("none", kw.jt,
                        Append(b, <<"keyword", NAMES_TABLE(kw.ret)>>))
            ELSE AddTypeElse(kw.jt, b))))

\* write_terminal: the line of one terminal element.
write_terminal(out, ind, element, terminal, indentFlag) ==
    Append(out, Indented(IF indentFlag THEN ind ELSE 0,
                         Line(0, "terminal", element, terminal)))

\* write_non_terminal_start: the start tag, then the pending body is drained,
\* one terminal line each.  Gives the output, the indent and the body.
RECURSIVE DrainBody(_, _, _)
DrainBody(out, ind, b) ==
    IF b = <<>> THEN out
    ELSE DrainBody(
             LET w == write_terminal(<<>>, ind, Head(b)[1], Head(b)[2], FALSE)
             IN Append(out, Indented(ind, w[1])),
             ind, Tail(b))

write_non_terminal_start(out, ind, b, element) ==
    [outfile |-> DrainBody(Append(out, Line(ind, "start", element, "")),
                           ind + 2, b),
     indent |-> ind + 2,
     body |-> <<>>]

\* A variant of write_non_terminal_end that keeps the indent.
write_non_terminal_end_no_dedent(out, ind, element) ==
    [outfile |-> Append(out, Line(ind, "end", element, "")),
     indent |-> ind]

write_non_terminal_end(out, ind, element) ==
    [outfile |-> Append(out, Line(ind - 2, "end", element, "")),
     indent |-> ind - 2]

(***************************************************************************)
(* The files handed to compile_class: classes of the grammar, and the same *)
(* classes with one token left out or one token put in.                    *)
(***************************************************************************)
RECURSIVE NameList(_)
NameList(n) ==
    IF n = 1 THEN <<"x">>
    ELSE NameList(n - 1) \o <<",", IF n % 2 = 0 THEN "y" ELSE "x">>

VarDecs ==
    {kt \o NameList(n) \o <<";">> :
        kt \in {<<"static", "int">>, <<"field", "int">>, <<"field", "Main">>},
        n \in 1..MaxNames}

RECURSIVE DecSeqs(_)
DecSeqs(k) ==
    IF k = 0 THEN {<<>>}
    ELSE DecSeqs(k - 1) \cup {s \o d : s \in DecSeqs(k - 1), d \in VarDecs}

SubDecs ==
    {<<>>,
     <<"function", "void", "f", "(", ")">>,
     <<"method", "int", "f", "(", ")", "{", "}">>}

Classes ==
    {<<"class", "Main", "{">> \o ds \o sd \o <<"}">> :
        ds \in DecSeqs(MaxDecs), sd \in SubDecs}

InsertedTokens == {"}", "x", ";", "static"}

Without(s, i) == SubSeq(s, 1, i - 1) \o SubSeq(s, i + 1, Len(s))

With(s, i, tok) == SubSeq(s, 1, i) \o <<tok>> \o SubSeq(s, i + 1, Len(s))

Inputs ==
    Classes
    \cup {Without(s, i) : <<s, i>> \in
             {<<c, j>> \in Classes \X (1..(5 + 6 * MaxDecs + 2 * MaxNames * MaxDecs)) :
                 j <= Len(c)}}
    \cup {With(p[1], p[2], p[3]) : p \in
             {<<c, j, tok>> \in
                 Classes \X (0..(5 + 6 * MaxDecs + 2 * MaxNames * MaxDecs)) \X InsertedTokens :
                 j <= Len(c)}}

Init ==
    /\ jt \in {JackTokenizer(<<toks>>) : toks \in Inputs}
    /\ pc = "class_keyword"
    /\ exc = "none"
    /\ body = <<>>
    /\ indent = 0
    /\ outfile = <<>>
    /\ ret = NoCall

(***************************************************************************)
(* The steps of compile_class, compile_class_var_dec and                   *)
(* compile_subroutine.                                                     *)
(***************************************************************************)
\* A helper called outside any try block: what it raises leaves the routine.
Step(r, nextPc) ==
    /\ jt' = r.jt
    /\ body' = r.body
    /\ exc' = r.exc
    /\ pc' = IF r.exc = "none" THEN nextPc ELSE "raised"
    /\ UNCHANGED ret

\* A variant of StepInTry whose except clause does not break: the step
\* that raised is tried again.
StepInTryAgain(r, nextPc, breakPc) ==
    /\ jt' = r.jt
    /\ body' = r.body
    /\ exc' = IF r.exc # "none" /\ ~Catches(r.exc) THEN r.exc ELSE "none"
    /\ pc' = IF r.exc = "none" THEN nextPc
             ELSE IF Catches(r.exc) THEN pc ELSE "raised"
    /\ UNCHANGED ret

\* A helper called inside a loop's try block: an exception the except
\* clause catches breaks the loop.
StepInTry(r, nextPc, breakPc) ==
    /\ jt' = r.jt
    /\ body' = r.body
    /\ exc' = IF r.exc # "none" /\ ~Catches(r.exc) THEN r.exc ELSE "none"
    /\ pc' = IF r.exc = "none" THEN nextPc
             ELSE IF Catches(r.exc) THEN breakPc ELSE "raised"
    /\ UNCHANGED ret

\* A write to the output, which raises nothing.
Write(w, nextPc) ==
    /\ outfile' = w.outfile
    /\ indent' = w.indent
    /\ pc' = nextPc
    /\ UNCHANGED <<jt, exc, ret>>

\* compile_class, step 1: 'class'
ClassKeyword ==
    /\ pc = "class_keyword"
    /\ \E r \in {add_keywords(jt, body, {"class"}, TRUE)} :
           Step(r, "class_name")
    /\ UNCHANGED <<indent, outfile>>

\* compile_class, step 2: className
ClassName ==
    /\ pc = "class_name"
    /\ \E r \in {add_identifier(jt, body, TRUE)} :
           Step(r, "class_open")
    /\ UNCHANGED <<indent, outfile>>

\* compile_class, step 3: '{'
ClassOpen ==
    /\ pc = "class_open"
    /\ \E r \in {add_symbols(jt, body, {"{"}, TRUE)} :
           Step(r, "class_start")
    /\ UNCHANGED <<indent, outfile>>

\* compile_class: write_non_terminal_start('class')
ClassStart ==
    /\ pc = "class_start"
    /\ \E w \in {write_non_terminal_start(outfile, indent, body, "class")} :
           Write(w, "var_dec_advance") /\ body' = w.body

\* compile_class, step 4: f.advance() at the head of the classVarDec loop
VarDecAdvance ==
    /\ pc = "var_dec_advance"
    /\ IF advance_raises(jt)
       THEN /\ jt' = jt
            /\ exc' = "ValueError"
            /\ pc' = "raised"
       ELSE /\ jt' = advance(jt)
            /\ exc' = "none"
            /\ pc' = "var_dec_keyword"
    /\ UNCHANGED <<body, indent, outfile, ret>>

\* compile_class_var_dec, step 1: ('static' | 'field'), without advancing
VarDecKeyword ==
    /\ pc = "var_dec_keyword"
    /\ \E r \in {add_keywords(jt, body, {"static", "field"}, FALSE)} :
           StepInTry(r, "var_dec_type", "subroutine_keyword")
    /\ UNCHANGED <<indent, outfile>>

\* compile_class_var_dec, step 2: type
VarDecType ==
    /\ pc = "var_dec_type"
    /\ \E r \in {add_type(jt, body, FALSE)} :
           StepInTry(r, "var_dec_name", "subroutine_keyword")
    /\ UNCHANGED <<indent, outfile>>

\* compile_class_var_dec, step 3 and the else branch of the loop: varName
VarDecName ==
    /\ pc = "var_dec_name"
    /\ \E r \in {add_identifier(jt, body, TRUE)} :
           StepInTry(r, "var_dec_symbol", "subroutine_keyword")
    /\ UNCHANGED <<indent, outfile>>

\* compile_class_var_dec, steps 4/5: (',' | ';') and the test
\* f.symbol() == ';' that ends the loop
VarDecSymbol ==
    /\ pc = "var_dec_symbol"
    /\ \E r \in {add_symbols(jt, body, {",", ";"}, TRUE)} :
           IF r.exc # "none"
           THEN StepInTry(r, "var_dec_write", "subroutine_keyword")
           ELSE \E sy \in {symbol(r.jt)} :
                    StepInTry(Result("none", sy.jt, r.body),
                              IF sy.ret = ";" THEN "var_dec_write"
                                              ELSE "var_dec_name",
                              "subroutine_keyword")
    /\ UNCHANGED <<indent, outfile>>

\* compile_class_var_dec: write_non_terminal('classVarDec')
VarDecWrite ==
    /\ pc = "var_dec_write"
    /\ \E w \in {write_non_terminal_start(outfile, indent, body, "classVarDec")} :
           /\ \E e \in {write_non_terminal_end(w.outfile, w.indent, "classVarDec")} :
                  Write(e, "var_dec_advance")
           /\ body' = w.body

\* compile_subroutine, step 1: ('constructor' | 'function' | 'method'),
\* without advancing
SubroutineKeyword ==
    /\ pc = "subroutine_keyword"
    /\ \E r \in {add_keywords(jt, body, {"constructor", "function", "method"},
                              FALSE)} :
           StepInTry(r, "subroutine_type", "class_close")
    /\ UNCHANGED <<indent, outfile>>

\* compile_subroutine: ('void' | type)
SubroutineType ==
    /\ pc = "subroutine_type"
    /\ \E r \in {add_type(jt, body, TRUE)} :
           StepInTry(r, "subroutine_name", "class_close")
    /\ UNCHANGED <<indent, outfile>>

\* compile_subroutine: subroutineName
SubroutineName ==
    /\ pc = "subroutine_name"
    /\ \E r \in {add_identifier(jt, body, TRUE)} :
           StepInTry(r, "subroutine_open", "class_close")
    /\ UNCHANGED <<indent, outfile>>

\* compile_subroutine: '('
SubroutineOpen ==
    /\ pc = "subroutine_open"
    /\ \E r \in {add_symbols(jt, body, {"("}, TRUE)} :
           StepInTry(r, "subroutine_start", "class_close")
    /\ UNCHANGED <<indent, outfile>>

\* compile_subroutine: write_non_terminal_start('subroutineDec')
SubroutineStart ==
    /\ pc = "subroutine_start"
    /\ \E w \in {write_non_terminal_start(outfile, indent, body, "subroutineDec")} :
           Write(w, "subroutine_close") /\ body' = w.body

\* compile_subroutine: compile_parameter_list(), which has no body, and ')'
SubroutineClose ==
    /\ pc = "subroutine_close"
    /\ \E r \in {add_symbols(jt, body, {")"}, TRUE)} :
           StepInTry(r, "subroutine_write_close", "class_close")
    /\ UNCHANGED <<indent, outfile>>

\* compile_subroutine: write_terminal(*next(self._body), indent=True);
\* next() of an empty body raises StopIteration
SubroutineWriteClose ==
    /\ pc = "subroutine_write_close"
    /\ IF body = <<>>
       THEN /\ exc' = "StopIteration"
            /\ pc' = "raised"
            /\ UNCHANGED <<jt, body, indent, outfile, ret>>
       ELSE /\ Write([outfile |-> write_terminal(outfile, indent, Head(body)[1],
                                                 Head(body)[2], TRUE),
                      indent |-> indent],
                     "subroutine_end")
            /\ body' = Tail(body)

\* compile_subroutine: compile_statements(), which has no body, and
\* write_non_terminal_end('subroutineDec'); the loop of compile_class goes on
SubroutineEnd ==
    /\ pc = "subroutine_end"
    /\ \E e \in {write_non_terminal_end(outfile, indent, "subroutineDec")} :
           Write(e, "subroutine_keyword")
    /\ UNCHANGED body

\* compile_class, step 6: '}'
ClassClose ==
    /\ pc = "class_close"
    /\ \E r \in {add_symbols(jt, body, {"}"}, TRUE)} :
           Step(r, "class_end")
    /\ UNCHANGED <<indent, outfile>>

\* compile_class: write_non_terminal_end('class'), and the return
ClassEnd ==
    /\ pc = "class_end"
    /\ \E e \in {write_non_terminal_end(outfile, indent, "class")} :
           Write(e, "done")
    /\ UNCHANGED body

Next ==
    \/ ClassKeyword
    \/ ClassName
    \/ ClassOpen
    \/ ClassStart
    \/ VarDecAdvance
    \/ VarDecKeyword
    \/ VarDecType
    \/ VarDecName
    \/ VarDecSymbol
    \/ VarDecWrite
    \/ SubroutineKeyword
    \/ SubroutineType
    \/ SubroutineName
    \/ SubroutineOpen
    \/ SubroutineStart
    \/ SubroutineClose
    \/ SubroutineWriteClose
    \/ SubroutineEnd
    \/ ClassClose
    \/ ClassEnd

Spec == Init /\ [][Next]_vars

\* compile_class runs on one thread that nothing suspends: while a step
\* of it can be taken, one is taken.
LiveSpec == Init /\ [][Next]_vars /\ WF_vars(Next)

(***************************************************************************)
(* What the properties speak about.                                        *)
(***************************************************************************)
\* The tokens of the file of the tokenizer, in source order.
Source == AllTexts(jt.fd.lines)

\* The position in the source of the current token (0: there is none).
CurrentPos == IF jt.log = <<>> THEN 0 ELSE jt.log[Len(jt.log)]

\* The terminal leaf the output format gives a token: its classification
\* name and its display value (section 6 of the specification).
LeafOf(text) ==
    CASE Classify(text) = KEYWORD -> <<"keyword", text>>
      [] Classify(text) = SYMBOL -> <<"symbol", escape(text)>>
      [] Classify(text) = IDENTIFIER -> <<"identifier", text>>
      [] Classify(text) = INT_CONST -> <<"integerConstant", text>>
      [] Classify(text) = STRING_CONST -> <<"stringConstant", text>>
      [] OTHER -> <<"None", text>>

IsTerminal(line) == line.kind = "terminal"

\* The terminal leaves of some output lines, in the order written.
Leaves(lines) ==
    LET ts == SelectSeq(lines, IsTerminal)
    IN [i \in 1..Len(ts) |-> <<ts[i].element, ts[i].terminal>>]

\* How many output lines open (kind "start") or close (kind "end") a wrapper
\* of the element; the element "" stands for any.
Count(kind, element) ==
    Cardinality({i \in 1..Len(outfile) :
                    /\ outfile[i].kind = kind
                    /\ element \in {"", outfile[i].element}})

\* The lines of the output a file with an empty class body should give.
EmptyClassOutput ==
    <<Line(0, "start", "class", ""),
      Line(2, "terminal", "keyword", "class"),
      Line(2, "terminal", "identifier", "Main"),
      Line(2, "terminal", "symbol", "{"),
      Line(2, "terminal", "symbol", "}"),
      Line(0, "end", "class", "")>>

(***************************************************************************)
(* C1  Losslessness: when compile_class has returned, the terminal leaves  *)
(* of the output, in the order written, are the tokens the tokenizer made  *)
(* current during the call, each once.                                     *)
(***************************************************************************)
C1_Lossless ==
    pc = "done" =>
        Leaves(outfile) = [i \in 1..Len(jt.log) |-> LeafOf(Source[jt.log[i]])]

(***************************************************************************)
(* C2  For the file "class Main { }" compile_class returns and the output  *)
(* is the class wrapper around the four leaves class, Main, {, } with no   *)
(* classVarDec or subroutineDec wrapper.                                   *)
(***************************************************************************)
C2_EmptyClass ==
    (/\ Source = <<"class", "Main", "{", "}">>
     /\ pc \in {"done", "raised"})
        => (pc = "done" /\ outfile = EmptyClassOutput)

\* A repetition of compile_class has just ended without a match.
ZeroTimesEnded ==
    \/ /\ pc = "subroutine_keyword"
       /\ Count("start", "classVarDec") = 0
       /\ Count("start", "subroutineDec") = 0
    \/ /\ pc = "class_close"
       /\ Count("start", "subroutineDec") = 0

(***************************************************************************)
(* C3  When a repeated group of compile_class has matched zero times, the  *)
(* step that follows checks the token that ended the repetition: it does   *)
(* not make another token current.                                         *)
(***************************************************************************)
C3_NothingSkipped == [][ZeroTimesEnded => jt'.log = jt.log]_vars

(***************************************************************************)
(* C4  The indent is twice the number of wrappers that are open, is never  *)
(* negative, is positive from the opening of the class wrapper until       *)
(* compile_class returns, and is zero when it has returned.                *)
(***************************************************************************)
C4_IndentBalanced ==
    /\ indent = 2 * (Count("start", "") - Count("end", ""))
    /\ indent >= 0
    /\ (outfile # <<>> /\ pc # "done") => indent > 0
    /\ pc = "done" => indent = 0

C4_Witness ==
    /\ pc = "done"
    /\ indent = 0
    /\ Count("end", "classVarDec") >= 1
    /\ Count("end", "class") = 1

\* type: 'int' | 'char' | 'boolean' | className, and 'void'
IsTypeText(text, void) ==
    \/ text \in {"int", "char", "boolean"}
    \/ void /\ text = "void"
    \/ Classify(text) = IDENTIFIER

\* Whether the token fits the step of the production at pc.
Fits(at, text) ==
    CASE at = "var_dec_type" -> IsTypeText(text, FALSE)
      [] at = "var_dec_name" -> Classify(text) = IDENTIFIER
      [] at = "var_dec_symbol" -> text \in {",", ";"}
      [] at = "subroutine_type" -> IsTypeText(text, TRUE)
      [] at = "subroutine_name" -> Classify(text) = IDENTIFIER
      [] at = "subroutine_open" -> text = "("
      [] at = "subroutine_close" -> text = ")"
      [] OTHER -> TRUE

CommittedSteps ==
    {"var_dec_type", "var_dec_name", "var_dec_symbol", "subroutine_type",
     "subroutine_name", "subroutine_open", "subroutine_close"}

(***************************************************************************)
(* C5  A token that does not fit, met after the first token of a class     *)
(* variable declaration or of a subroutine declaration has been matched,   *)
(* raises an error no loop of compile_class catches: compile_class is left *)
(* with it.                                                                *)
(***************************************************************************)
C5_FatalAfterCommit ==
    [][(/\ pc \in CommittedSteps
        /\ jt'.log # jt.log
        /\ ~Fits(pc, jt'.token))
           => (pc' = "raised" /\ exc' = "CompileError")]_vars

C5_Witness ==
    /\ pc = "raised"
    /\ exc = "CompileError"
    /\ body # <<>>
    /\ body[1][2] \in {"static", "field", "function", "method"}

(***************************************************************************)
(* C6  A leading keyword check of compile_class_var_dec or of              *)
(* compile_subroutine that fails only ends its repetition: compile_class   *)
(* goes on with what follows the repetition and no error leaves it.        *)
(***************************************************************************)
C6_MismatchEndsRepetition ==
    [][/\ (pc = "var_dec_keyword" /\ jt.token \notin {"static", "field"})
           => (pc' = "subroutine_keyword" /\ exc' = "none")
       /\ (pc = "subroutine_keyword"
             /\ jt.token \notin {"constructor", "function", "method"})
           => (pc' = "class_close" /\ exc' = "none")]_vars

C6_Witness ==
    /\ pc = "class_close"
    /\ exc = "none"
    /\ Count("start", "classVarDec") >= 1

(***************************************************************************)
(* C7  When compile_class is left with an error, nothing has been written  *)
(* to the output.                                                          *)
(***************************************************************************)
C7_NoPartialOutput == pc = "raised" => outfile = <<>>

\* ('static' | 'field') type varName (',' varName)* ';'
IsVarDec(s) ==
    /\ Len(s) >= 4
    /\ Len(s) % 2 = 0
    /\ s[1] \in {"static", "field"}
    /\ IsTypeText(s[2], FALSE)
    /\ \A i \in 3..Len(s) :
          IF i % 2 = 1 THEN Classify(s[i]) = IDENTIFIER
          ELSE s[i] = (IF i = Len(s) THEN ";" ELSE ",")

\* A well-formed declaration starts at position p of the source.
VarDecAt(p) ==
    /\ p >= 1
    /\ \E n \in 4..(Len(Source) - p + 1) : IsVarDec(SubSeq(Source, p, p + n - 1))

\* compile_class_var_dec has just returned.
VarDecReturned ==
    /\ pc = "var_dec_advance"
    /\ outfile[Len(outfile)] = Line(indent, "end", "classVarDec", "")

\* The output line that opened the wrapper written last.
LastStart ==
    CHOOSE i \in 1..Len(outfile) :
        /\ outfile[i].kind = "start"
        /\ \A j \in (i + 1)..Len(outfile) : outfile[j].kind # "start"

\* compile_class_var_dec was left with an error; the pending body holds
\* the tokens it had matched.
VarDecRaised ==
    /\ pc = "raised"
    /\ body # <<>>
    /\ body[1][2] \in {"static", "field"}

(***************************************************************************)
(* C8  compile_class_var_dec, entered on the first keyword of a            *)
(* well-formed class variable declaration, returns, and what it has        *)
(* written is one classVarDec wrapper whose leaves are the tokens of the   *)
(* declaration, each once and in source order.                             *)
(***************************************************************************)
C8_VarDecWrapper ==
    /\ VarDecReturned =>
          LET n == Len(outfile) - LastStart - 1
              first == CurrentPos - n + 1
          IN /\ outfile[LastStart] = Line(indent, "start", "classVarDec", "")
             /\ first >= 1
             /\ IsVarDec(SubSeq(Source, first, CurrentPos))
             /\ SubSeq(jt.log, Len(jt.log) - n + 1, Len(jt.log))
                    = [i \in 1..n |-> first + i - 1]
             /\ Leaves(SubSeq(outfile, LastStart + 1, Len(outfile) - 1))
                    = [i \in 1..n |-> LeafOf(Source[first + i - 1])]
             /\ \A i \in (LastStart + 1)..(Len(outfile) - 1) :
                    outfile[i].kind = "terminal" /\ outfile[i].indent = indent + 2
             /\ body = <<>>
    /\ VarDecRaised =>
          ~VarDecAt(CurrentPos - Len(body) + (IF exc = "ValueError" THEN 1 ELSE 0))

C8_Witness ==
    /\ VarDecReturned
    /\ Len(outfile) - LastStart - 1 = 6
    /\ Source[CurrentPos - 5] = "field"
    /\ Source[CurrentPos - 3] = "x"
    /\ Source[CurrentPos - 1] = "y"

C10_NoTokenTwice ==
    [][/\ Len(jt'.log) >= Len(jt.log)
       /\ SubSeq(jt'.log, 1, Len(jt.log)) = jt.log
       /\ \A i \in (Len(jt.log) + 1)..Len(jt'.log) :
             \A j \in 1..Len(jt.log) : jt'.log[i] # jt.log[j]
       /\ ~has_more_tokens(jt) => ~has_more_tokens(jt')]_vars

C10_Witness ==
    /\ Len(jt.log) >= 3
    /\ ~has_more_tokens(jt)
    /\ exc = "ValueError"

(***************************************************************************)
(* C11  A call of advance() made when has_more_tokens() is false raises    *)
(* the error EndOfInput instead of returning, and the current token is     *)
(* what it was.                                                            *)
(***************************************************************************)
C11_EndOfInput ==
    [][(ret'.op = "advance" /\ ~has_more_tokens(jt))
          => (ret'.exc = "EndOfInput" /\ jt'.token = jt.token)]_vars

(***************************************************************************)
(* C11, amended  A call of advance() made when has_more_tokens() is false  *)
(* raises ValueError, the error of reading the closed file, instead of     *)
(* returning, and the tokenizer is left as it was.                         *)
(***************************************************************************)
C11_RaisesAtEnd ==
    [][(ret'.op = "advance" /\ ~has_more_tokens(jt))
          => (ret'.exc = "ValueError" /\ jt' = jt)]_vars

C11_Witness ==
    /\ ret = Call("advance", "ValueError", "")
    /\ ~has_more_tokens(jt)
    /\ jt.token = ";"
    /\ Len(jt.log) = 3

\* The kind of token each accessor belongs to.
KindOf(op) ==
    CASE op = "key_word" -> KEYWORD
      [] op = "symbol" -> SYMBOL
      [] op = "identifier" -> IDENTIFIER
      [] op = "int_val" -> INT_CONST
      [] op = "string_val" -> STRING_CONST

Accessors == {"key_word", "symbol", "identifier", "int_val", "string_val"}

(***************************************************************************)
(* C12  An accessor returns a value only when the current token is of the  *)
(* accessor's kind; called on a current token of another kind it raises an *)
(* error.                                                                  *)
(***************************************************************************)
C12_WrongKindFails ==
    (ret.op \in Accessors /\ ret.exc = "none" /\ jt.log # <<>>)
        => Classify(jt.token) = KindOf(ret.op)

(***************************************************************************)
(* C13  A token of digits is classified INT_CONST whatever its value, and  *)
(* int_val() returns a value only when that value is in 0..32767.          *)
(***************************************************************************)
C13_IntRange ==
    /\ (ret.op = "token_type" /\ IsDecimal(jt.token)) => ret.val = INT_CONST
    /\ (ret.op = "int_val" /\ ret.exc = "none") => ret.int \in 0..32767

(***************************************************************************)
(* C14  Whatever calls came before, token_type() returns the kind the      *)
(* classification gives the current text from an empty cache, and the      *)
(* cache entry of the text then holds that kind under "token_type".        *)
(***************************************************************************)
C14_Memoization ==
    ret.op = "token_type" =>
        /\ jt.token \in DOMAIN jt.token_cache
        /\ jt.token_cache[jt.token].key = "token_type"
        /\ jt.token_cache[jt.token].val = ret.val
        /\ ret.val = token_type([JackTokenizer(jt.fd.lines)
                                  EXCEPT !.token = jt.token]).ret

C14_Witness ==
    /\ ret = Call("token_type", "none", SYMBOL)
    /\ jt.token = ";"
    /\ Len(jt.log) = 3
    /\ "x" \in DOMAIN jt.token_cache
    /\ jt.token_cache["x"].key = "identifier"

\* The items of a file, line after line.
RECURSIVE Items(_)
Items(lines) ==
    IF lines = <<>> THEN <<>> ELSE Head(lines) \o Items(Tail(lines))

\* The items of a file that are outside every block comment: a block
\* comment starts at a start marker met outside a comment and ends at the
\* first end marker after it, or at the end of the file.
RECURSIVE OutsideComments(_, _)
OutsideComments(s, inside) ==
    IF s = <<>> THEN <<>>
    ELSE IF inside THEN OutsideComments(Tail(s), Head(s) # "*/")
    ELSE IF Head(s) = "/*" THEN OutsideComments(Tail(s), TRUE)
    ELSE <<Head(s)>> \o OutsideComments(Tail(s), FALSE)

\* Whether the last block comment of the items is left without its end.
RECURSIVE Unterminated(_, _)
Unterminated(s, inside) ==
    IF s = <<>> THEN inside
    ELSE IF inside THEN Unterminated(Tail(s), Head(s) # "*/")
    ELSE Unterminated(Tail(s), Head(s) = "/*")

\* The tokens the tokenizer holds: the current one, the lookahead and the
\* queue.
Held(t) ==
    (IF t.log = <<>> THEN <<>> ELSE <<t.token>>)
    \o (IF t.next_token = "" THEN <<>> ELSE <<t.next_token>>)
    \o [i \in 1..Len(t.token_queue) |-> t.token_queue[i].text]

(***************************************************************************)
(* C15  Once advance() has read a file whose block comments all end, the   *)
(* tokens it hands out, from the current one on, are the tokens of the     *)
(* file with every block comment taken out: nothing inside a block comment *)
(* becomes a token, whatever the lines the comment starts and ends on,     *)
(* also when a line holds a whole comment and the start of another.        *)
(***************************************************************************)
C15_BlockCommentsElided ==
    (/\ jt.fd.pos = Len(jt.fd.lines)
     /\ ~Unterminated(Items(jt.fd.lines), FALSE)) =>
        LET expected == ALL_TERMINATORS(OutsideComments(Items(jt.fd.lines), FALSE))
        IN /\ Len(jt.log) <= Len(expected)
           /\ Held(jt) = SubSeq(expected,
                                IF jt.log = <<>> THEN 1 ELSE Len(jt.log),
                                Len(expected))

SubroutineReturned ==
    /\ pc = "subroutine_keyword"
    /\ outfile # <<>>
    /\ outfile[Len(outfile)] = Line(indent, "end", "subroutineDec", "")

(***************************************************************************)
(* C17  When compile_class, compile_class_var_dec or compile_subroutine    *)
(* has returned, the pending body is empty: every pair appended during the *)
(* routine has been written to the output.                                 *)
(***************************************************************************)
C17_BodyDrained ==
    (pc = "done" \/ VarDecReturned \/ SubroutineReturned) => body = <<>>

\* subroutineDec, as far as the files of the model go: the keyword, the
\* return type, the name, a parameter list in parentheses and a body in
\* braces, neither holding a parenthesis or a brace.
IsSubroutineDec(s) ==
    /\ Len(s) >= 7
    /\ s[1] \in {"constructor", "function", "method"}
    /\ IsTypeText(s[2], TRUE)
    /\ Classify(s[3]) = IDENTIFIER
    /\ s[4] = "("
    /\ s[Len(s)] = "}"
    /\ \E k \in 5..(Len(s) - 2) :
          /\ s[k] = ")"
          /\ s[k + 1] = "{"
          /\ \A m \in (5..(Len(s) - 1)) \ {k, k + 1} :
                s[m] \notin {"(", ")", "{", "}"}

(***************************************************************************)
(* C18  When compile_subroutine has returned, the tokens from its keyword  *)
(* up to the token compile_class examines next, that one left out, are one *)
(* whole subroutineDec, its body up to the closing brace included.         *)
(***************************************************************************)
C18_SubroutineConsumed ==
    SubroutineReturned =>
        LET n == Len(Leaves(SubSeq(outfile, LastStart + 1, Len(outfile))))
            first == CurrentPos - n + 1
        IN /\ outfile[LastStart].element = "subroutineDec"
           /\ first >= 1
           /\ Source[first] \in {"constructor", "function", "method"}
           /\ IsSubroutineDec(SubSeq(Source, first, CurrentPos - 1))

\* The leading keyword check at pc fails in the step.
LeadingCheckFails ==
    \/ pc = "var_dec_keyword" /\ pc' # "var_dec_type"
    \/ pc = "subroutine_keyword" /\ pc' # "subroutine_type"

(***************************************************************************)
(* C19  A leading keyword check of compile_class_var_dec or of             *)
(* compile_subroutine that fails raises with the current token, the        *)
(* lookahead and the tokens behind it, the pending body, the indent and    *)
(* the output as they were when the routine was entered.                   *)
(***************************************************************************)
C19_FailedCheckChangesNothing ==
    [][LeadingCheckFails =>
          /\ jt'.token = jt.token
          /\ jt'.next_token = jt.next_token
          /\ jt'.token_queue = jt.token_queue
          /\ jt'.log = jt.log
          /\ jt'.fd = jt.fd
          /\ jt'.more_tokens = jt.more_tokens
          /\ body' = body
          /\ indent' = indent
          /\ outfile' = outfile]_vars

C19_Witness ==
    /\ pc = "class_close"
    /\ exc = "none"
    /\ jt.token = ")"
    /\ body = <<>>
    /\ Count("end", "subroutineDec") = 1

(***************************************************************************)
(* C20  When compile_class has returned or has been left with an error,    *)
(* the file of the tokenizer is closed.                                    *)
(***************************************************************************)
C20_HandleReleased == pc \in {"done", "raised"} => jt.fd.closed

(***************************************************************************)
(* C21  compile_class terminates on every file: each of its loops, over    *)
(* the class variable declarations, over the names of one declaration and  *)
(* over the subroutine declarations, is left after finitely many rounds,   *)
(* and compile_class returns or is left with an error.                     *)
(***************************************************************************)
C21_Terminates == <>(pc \in {"done", "raised"})

C21_Witness ==
    /\ pc = "done"
    /\ Count("end", "classVarDec") = MaxDecs
    /\ Count("end", "subroutineDec") = 1
    /\ \E i \in 1..Len(outfile) : outfile[i] = Line(4, "terminal", "symbol", ",")

====
